---- MODULE Spec2Model ----
(***************************************************************************)
(* PWM output driver (src/main/drivers/pwm_output.c): the motor and servo  *)
(* port banks, the protocol selection done by motorInit, the per-channel   *)
(* write path with its global enable gate, the shutdown path and the       *)
(* once-per-cycle completion step of the synced analog protocols.          *)
(*                                                                         *)
(* The build modelled defines USE_SERVOS and USE_DSHOT.  Pointers are      *)
(* small integers, NULL is 0.  A compare-register handle (port->ccr) is    *)
(* the index of a hardware compare register in reg.  The hardware and the  *)
(* digital bridge are external to the file; what they do to the state of   *)
(* this file is stated where they are used.                                *)
(***************************************************************************)
EXTENDS Integers, Sequences, FiniteSets, TLC

\* ------------------------------------------------------------ constants

NULL == 0

\* Capacity of the banks (platform maxima; the model bounds them).
MAX_SUPPORTED_MOTORS == 3
MAX_SUPPORTED_SERVOS == 1

\* Timer clocks of the protocols, in MHz (pwm_output.h).
ONESHOT125_TIMER_MHZ == 8
ONESHOT42_TIMER_MHZ == 24
MULTISHOT_TIMER_MHZ == 8
PWM_BRUSHED_TIMER_MHZ == 24
PWM_TIMER_MHZ == 1

\* #define MULTISHOT_5US_PW (MULTISHOT_TIMER_MHZ * 5)
MULTISHOT_5US_PW == MULTISHOT_TIMER_MHZ * 5

MotorSlots == 0 .. (MAX_SUPPORTED_MOTORS - 1)
ServoSlots == 0 .. (MAX_SUPPORTED_SERVOS - 1)

\* motorPwmProtocolTypes_e; "PWM_TYPE_MAX" stands for any value the switch
\* of motorInit does not name.
AnalogProtocols ==
    {"PWM_TYPE_STANDARD", "PWM_TYPE_ONESHOT125", "PWM_TYPE_ONESHOT42",
     "PWM_TYPE_MULTISHOT", "PWM_TYPE_BRUSHED", "PWM_TYPE_MAX"}
DshotProtocols == {"PWM_TYPE_DSHOT600", "PWM_TYPE_DSHOT300", "PWM_TYPE_DSHOT150"}
Protocols == AnalogProtocols \cup DshotProtocols

\* uint16_t parameter passing.
Uint16(x) == x % 65536

\* ------------------------------------------------------- timer hardware

\* The timers of the board; a timer identity is 1..NumTimers, NULL is none.
NumTimers == 2
Timers == 1 .. NumTimers
ChannelsPerTimer == 2

NoTimerHardware == [tim |-> NULL, channel |-> 0]

\* timerGetByTag(tag, TIMER_OUTPUT_ENABLED): the board's table of pins.
\* Tags 1 and 2 are two channels of timer 1, tag 3 is a channel of timer 2,
\* tag 4 is a pin with no timer (unresolvable).  Tag 0 is "unset".
IoTags == 0 .. 4
timerGetByTag(tag) ==
    CASE tag = 1 -> [tim |-> 1, channel |-> 1]
      [] tag = 2 -> [tim |-> 1, channel |-> 2]
      [] tag = 3 -> [tim |-> 2, channel |-> 1]
      [] OTHER -> NoTimerHardware

\* timerChCCR(timerHardware): the address of the channel's compare register.
timerChCCR(timerHardware) ==
    (timerHardware.tim - 1) * ChannelsPerTimer + timerHardware.channel

CcrHandles == 1 .. (NumTimers * ChannelsPerTimer)

\* ---------------------------------------------------------------- state

VARIABLES
    motors,               \* static pwmOutputPort_t motors[MAX_SUPPORTED_MOTORS]
    servos,               \* static pwmOutputPort_t servos[MAX_SUPPORTED_SERVOS]
    pwmCompleteWritePtr,  \* static pwmCompleteWriteFuncPtr
    pwmMotorsEnabled,     \* static bool pwmMotorsEnabled
    reg,                  \* the hardware compare registers, by handle
    motorConfig,          \* the motorConfig_t motorInit is given
    initArgs,             \* idlePulse and motorCount given to motorInit
    servoConfig,          \* the servoConfig_t servoInit is given
    phase,                \* "boot", "motorsReady", "run"
    lastCall,             \* the most recent call: [op, arg]
    forced,               \* timerForceOverflow calls of the most recent call, by timer
    nullStores,           \* stores through a NULL ccr by the most recent call
    lastGate,             \* most recent gate operation: "none", "enable", "disable"
    halted,               \* the processor has faulted
    command               \* the command value the control loop has computed

vars == <<motors, servos, pwmCompleteWritePtr, pwmMotorsEnabled, reg,
          motorConfig, initArgs, servoConfig, phase, lastCall, forced,
          nullStores, lastGate, halted, command>>

\* A zero-initialised pwmOutputPort_t.
ZeroPort ==
    [ccr |-> NULL, period |-> 0, tim |-> NULL, pwmWritePtr |-> "NULL",
     enabled |-> FALSE]

NoForced == [t \in 0 .. NumTimers |-> 0]

\* What every call leaves of the per-call observations when it touches no
\* timer and no NULL handle.
Observe(op, arg) ==
    /\ lastCall' = [op |-> op, arg |-> arg]
    /\ forced' = NoForced
    /\ nullStores' = 0
    /\ halted' = FALSE

\* ------------------------------------------------------ initialisation

\* pwmOCConfig: timerOCInit loads TIM_Pulse = value into the channel's
\* compare register.
pwmOCConfig(rg, timerHardware, value) ==
    [rg EXCEPT ![timerChCCR(timerHardware)] = value]

\* Variant: pwmOutConfig without the closing store of 0, so that the
\* register keeps the pulse timerOCInit loaded.
pwmOutConfig_PulseKept(port, rg, timerHardware, mhz, period, value) ==
    LET ccr == timerChCCR(timerHardware)
    IN  [port |-> [port EXCEPT !.ccr = ccr,
                               !.period = Uint16(period),
                               !.tim = timerHardware.tim],
         reg |-> pwmOCConfig(rg, timerHardware, Uint16(value))]

\* pwmOutConfig(port, timerHardware, mhz, period, value); period and value
\* are uint16_t parameters.  Yields the port and the registers.
pwmOutConfig(port, rg, timerHardware, mhz, period, value) ==
    LET period16 == Uint16(period)
        value16 == Uint16(value)
        rg1 == pwmOCConfig(rg, timerHardware, value16)
        ccr == timerChCCR(timerHardware)
    IN  [port |-> [port EXCEPT !.ccr = ccr,
                               !.period = period16,
                               !.tim = timerHardware.tim],
         reg |-> [rg1 EXCEPT ![ccr] = 0]]

\* The switch of motorInit: the protocol's clock, write operation, forced
\* unsynced mode and idle pulse.
ProtocolSwitch(cfg, idlePulse) ==
    LET base == [timerMhzCounter |-> 0, pwmWritePtr |-> "NULL",
                 useUnsyncedPwm |-> cfg.useUnsyncedPwm, idlePulse |-> idlePulse,
                 isDigital |-> FALSE]
        p == cfg.motorPwmProtocol
    IN  CASE p = "PWM_TYPE_ONESHOT42" ->
               [base EXCEPT !.timerMhzCounter = ONESHOT42_TIMER_MHZ,
                            !.pwmWritePtr = "pwmWriteOneShot42"]
          [] p = "PWM_TYPE_MULTISHOT" ->
               [base EXCEPT !.timerMhzCounter = MULTISHOT_TIMER_MHZ,
                            !.pwmWritePtr = "pwmWriteMultiShot"]
          [] p = "PWM_TYPE_BRUSHED" ->
               [base EXCEPT !.timerMhzCounter = PWM_BRUSHED_TIMER_MHZ,
                            !.pwmWritePtr = "pwmWriteBrushed",
                            !.useUnsyncedPwm = TRUE, !.idlePulse = 0]
          [] p = "PWM_TYPE_STANDARD" ->
               [base EXCEPT !.timerMhzCounter = PWM_TIMER_MHZ,
                            !.pwmWritePtr = "pwmWriteStandard",
                            !.useUnsyncedPwm = TRUE, !.idlePulse = 0]
          [] p \in DshotProtocols ->
               [base EXCEPT !.isDigital = TRUE]
          [] OTHER ->
               [base EXCEPT !.timerMhzCounter = ONESHOT125_TIMER_MHZ,
                            !.pwmWritePtr = "pwmWriteOneShot125"]

\* Variant: a binding that reads the configured mode, not the mode the
\* switch has forced.
CompleteBinding_ConfiguredMode(before, sel) ==
    IF ~motorConfig.useUnsyncedPwm /\ ~sel.isDigital
    THEN "pwmCompleteOneshotMotorUpdate"
    ELSE IF sel.isDigital THEN "pwmCompleteDigitalMotorUpdate" ELSE before

\* Variant: a binding that takes the oneshot completion for every analog
\* protocol, whatever the mode.
CompleteBinding_EveryAnalog(before, sel) ==
    IF sel.isDigital THEN "pwmCompleteDigitalMotorUpdate"
    ELSE "pwmCompleteOneshotMotorUpdate"

\* The completion binding motorInit leaves, from the binding before it.
CompleteBinding(before, sel) ==
    IF ~sel.useUnsyncedPwm /\ ~sel.isDigital
    THEN "pwmCompleteOneshotMotorUpdate"
    ELSE IF sel.isDigital THEN "pwmCompleteDigitalMotorUpdate" ELSE before

\* Variant: the loop skips a bad slot and goes on (continue, not break).
OnBadTag_Continue(motorIndex, ms, rg, cfg, sel, motorCount) ==
    [motors |-> ms, reg |-> rg, next |-> motorIndex + 1]

\* What the population loop does on a slot whose tag is unset or does not
\* resolve: break.
OnBadTag(motorIndex, ms, rg, cfg, sel, motorCount) ==
    [motors |-> ms, reg |-> rg, next |-> MAX_SUPPORTED_MOTORS]

\* One pass of the population loop of motorInit on slot motorIndex; next is
\* the slot the loop goes on with (MAX_SUPPORTED_MOTORS: it has ended).
MotorSlotInit(motorIndex, ms, rg, cfg, sel, motorCount) ==
    LET tag == cfg.ioTags[motorIndex]
        timerHardware == timerGetByTag(tag)
    IN  IF tag = 0 \/ timerHardware = NoTimerHardware
        THEN OnBadTag(motorIndex, ms, rg, cfg, sel, motorCount)
        ELSE IF sel.isDigital
        THEN \* pwmDigitalMotorHardwareConfig is the bridge's; the port gets
             \* the bridge's write operation and no compare register.
             [motors |-> [ms EXCEPT ![motorIndex].pwmWritePtr = "pwmWriteDigital",
                                    ![motorIndex].enabled = TRUE],
              reg |-> rg, next |-> motorIndex + 1]
        ELSE LET hz == sel.timerMhzCounter * 1000000
                 port == [ms[motorIndex] EXCEPT !.pwmWritePtr = sel.pwmWritePtr]
                 r == IF sel.useUnsyncedPwm
                      THEN pwmOutConfig(port, rg, timerHardware, sel.timerMhzCounter,
                                        hz \div cfg.motorPwmRate, sel.idlePulse)
                      ELSE pwmOutConfig(port, rg, timerHardware, sel.timerMhzCounter,
                                        65535, 0)
             IN  [motors |-> [ms EXCEPT ![motorIndex] = [r.port EXCEPT !.enabled = TRUE]],
                  reg |-> r.reg, next |-> motorIndex + 1]

RECURSIVE MotorInitLoop(_, _, _, _, _, _)
MotorInitLoop(motorIndex, ms, rg, cfg, sel, motorCount) ==
    IF motorIndex < MAX_SUPPORTED_MOTORS /\ motorIndex < motorCount
    THEN LET r == MotorSlotInit(motorIndex, ms, rg, cfg, sel, motorCount)
         IN  MotorInitLoop(r.next, r.motors, r.reg, cfg, sel, motorCount)
    ELSE [motors |-> ms, reg |-> rg]

\* void motorInit(const motorConfig_t *motorConfig, uint16_t idlePulse, uint8_t motorCount)
motorInit ==
    /\ phase = "boot"
    /\ LET sel == ProtocolSwitch(motorConfig, initArgs.idlePulse)
           r == MotorInitLoop(0, motors, reg, motorConfig, sel, initArgs.motorCount)
       IN  /\ pwmCompleteWritePtr' = CompleteBinding(pwmCompleteWritePtr, sel)
           /\ motors' = r.motors
           /\ reg' = r.reg
    /\ phase' = "motorsReady"
    /\ Observe("motorInit", 0)
    /\ UNCHANGED <<servos, pwmMotorsEnabled, motorConfig, initArgs, servoConfig, lastGate, command>>

\* One pass of the loop of servoInit.
ServoSlotInit(servoIndex, ss, rg, cfg) ==
    LET tag == cfg.ioTags[servoIndex]
        timer == timerGetByTag(tag)
    IN  IF tag = 0 \/ timer = NoTimerHardware
        THEN [servos |-> ss, reg |-> rg, next |-> MAX_SUPPORTED_SERVOS]
        ELSE LET r == pwmOutConfig(ss[servoIndex], rg, timer, PWM_TIMER_MHZ,
                                   1000000 \div cfg.servoPwmRate, cfg.servoCenterPulse)
             IN  [servos |-> [ss EXCEPT ![servoIndex] = [r.port EXCEPT !.enabled = TRUE]],
                  reg |-> r.reg, next |-> servoIndex + 1]

RECURSIVE ServoInitLoop(_, _, _, _)
ServoInitLoop(servoIndex, ss, rg, cfg) ==
    IF servoIndex < MAX_SUPPORTED_SERVOS
    THEN LET r == ServoSlotInit(servoIndex, ss, rg, cfg)
         IN  ServoInitLoop(r.next, r.servos, r.reg, cfg)
    ELSE [servos |-> ss, reg |-> rg]

\* void servoInit(const servoConfig_t *servoConfig)
servoInit ==
    /\ phase = "motorsReady"
    /\ LET r == ServoInitLoop(0, servos, reg, servoConfig)
       IN  /\ servos' = r.servos
           /\ reg' = r.reg
    /\ phase' = "run"
    /\ Observe("servoInit", 0)
    /\ UNCHANGED <<motors, pwmCompleteWritePtr, pwmMotorsEnabled, motorConfig,
                   initArgs, servoConfig, lastGate, command>>

\* ------------------------------------------------------------- encoders

\* Variant: the quotient truncated (a cast, not lrintf).
lrintf_Truncated(num, den) == num \div den

\* lrintf of num/den for num >= 0, den > 0: to nearest, ties to even (the
\* default rounding mode).  The float operands of the encoders below are
\* exact, or off by less than the distance of the quotient to a tie.
lrintf(num, den) ==
    LET q == num \div den
        r == num % den
    IN  IF 2 * r < den THEN q
        ELSE IF 2 * r > den THEN q + 1
        ELSE IF q % 2 = 0 THEN q ELSE q + 1

\* Variant: the duty scaled over the whole pulse width, 2000, not the span.
pwmWriteBrushed_OverPulseWidth(port, value) == ((value - 1000) * port.period) \div 2000

\* Variant: the product kept in sixteen bits before the division.
pwmWriteBrushed_Product16(port, value) == Uint16((value - 1000) * port.period) \div 1000

\* (value - 1000) * motors[index].period / 1000
pwmWriteBrushed(port, value) == ((value - 1000) * port.period) \div 1000

pwmWriteStandard(port, value) == value

\* lrintf((float)(value * ONESHOT125_TIMER_MHZ/8.0f))
pwmWriteOneShot125(port, value) == lrintf(value * ONESHOT125_TIMER_MHZ, 8)

\* lrintf((float)(value * ONESHOT42_TIMER_MHZ/24.0f))
pwmWriteOneShot42(port, value) == lrintf(value * ONESHOT42_TIMER_MHZ, 24)

\* lrintf(((float)(value-1000) * MULTISHOT_20US_MULT) + MULTISHOT_5US_PW),
\* MULTISHOT_20US_MULT being MULTISHOT_TIMER_MHZ * 20 / 1000.0f
pwmWriteMultiShot(port, value) ==
    lrintf((value - 1000) * (MULTISHOT_TIMER_MHZ * 20) + MULTISHOT_5US_PW * 1000, 1000)

\* Variant: every write operation stores through motors[0], whatever the index.
CallWritePtr_FirstPort(rg, port, value) ==
    CASE port.pwmWritePtr = "pwmWriteBrushed" ->
           [rg EXCEPT ![motors[0].ccr] = pwmWriteBrushed(port, value)]
      [] port.pwmWritePtr = "pwmWriteStandard" ->
           [rg EXCEPT ![motors[0].ccr] = pwmWriteStandard(port, value)]
      [] port.pwmWritePtr = "pwmWriteOneShot125" ->
           [rg EXCEPT ![motors[0].ccr] = pwmWriteOneShot125(port, value)]
      [] port.pwmWritePtr = "pwmWriteOneShot42" ->
           [rg EXCEPT ![motors[0].ccr] = pwmWriteOneShot42(port, value)]
      [] port.pwmWritePtr = "pwmWriteMultiShot" ->
           [rg EXCEPT ![motors[0].ccr] = pwmWriteMultiShot(port, value)]
      [] OTHER -> rg

\* motors[index].pwmWritePtr(index, value): the registers after the call.
\* pwmWriteDigital is the bridge's and stores in no register of this file.
CallWritePtr(rg, port, value) ==
    CASE port.pwmWritePtr = "pwmWriteBrushed" ->
           [rg EXCEPT ![port.ccr] = pwmWriteBrushed(port, value)]
      [] port.pwmWritePtr = "pwmWriteStandard" ->
           [rg EXCEPT ![port.ccr] = pwmWriteStandard(port, value)]
      [] port.pwmWritePtr = "pwmWriteOneShot125" ->
           [rg EXCEPT ![port.ccr] = pwmWriteOneShot125(port, value)]
      [] port.pwmWritePtr = "pwmWriteOneShot42" ->
           [rg EXCEPT ![port.ccr] = pwmWriteOneShot42(port, value)]
      [] port.pwmWritePtr = "pwmWriteMultiShot" ->
           [rg EXCEPT ![port.ccr] = pwmWriteMultiShot(port, value)]
      [] OTHER -> rg

\* -------------------------------------------------------------- runtime

Running == phase = "run" /\ ~halted

\* Variant: the write guard without the test of the enable gate.
WriteMotorAllowed_NoGate(index) ==
    /\ index < MAX_SUPPORTED_MOTORS
    /\ motors[index].pwmWritePtr # "NULL"

\* index < MAX_SUPPORTED_MOTORS && pwmMotorsEnabled && motors[index].pwmWritePtr
WriteMotorAllowed(index) ==
    /\ index < MAX_SUPPORTED_MOTORS
    /\ pwmMotorsEnabled
    /\ motors[index].pwmWritePtr # "NULL"

\* void pwmWriteMotor(uint8_t index, uint16_t value)
pwmWriteMotor(index, value) ==
    /\ Running
    /\ Observe("pwmWriteMotor", index)
    /\ reg' = IF WriteMotorAllowed(index)
              THEN CallWritePtr(reg, motors[index], value)
              ELSE reg
    /\ UNCHANGED <<motors, servos, pwmCompleteWritePtr, pwmMotorsEnabled,
                   motorConfig, initArgs, servoConfig, phase, lastGate, command>>

\* Variant: a shutdown that honours the enable gate.
ShutdownSlot_Gated(rg, port) ==
    IF port.ccr # NULL /\ pwmMotorsEnabled THEN [rg EXCEPT ![port.ccr] = 0] ELSE rg

\* The body of the loop of pwmShutdownPulsesForAllMotors on one slot.
ShutdownSlot(rg, port) ==
    IF port.ccr # NULL THEN [rg EXCEPT ![port.ccr] = 0] ELSE rg

RECURSIVE ShutdownLoop(_, _, _)
ShutdownLoop(index, motorCount, rg) ==
    IF index < motorCount
    THEN ShutdownLoop(index + 1, motorCount, ShutdownSlot(rg, motors[index]))
    ELSE rg

\* void pwmShutdownPulsesForAllMotors(uint8_t motorCount)
pwmShutdownPulsesForAllMotors(motorCount) ==
    /\ Running
    /\ Observe("pwmShutdownPulsesForAllMotors", motorCount)
    /\ reg' = ShutdownLoop(0, motorCount, reg)
    /\ UNCHANGED <<motors, servos, pwmCompleteWritePtr, pwmMotorsEnabled,
                   motorConfig, initArgs, servoConfig, phase, lastGate, command>>

\* Variant: a disable that also zeroes the compare register of every motor.
pwmDisableMotors_ZeroesPulses ==
    /\ Running
    /\ Observe("pwmDisableMotors", 0)
    /\ pwmMotorsEnabled' = FALSE
    /\ lastGate' = "disable"
    /\ reg' = ShutdownLoop(0, MAX_SUPPORTED_MOTORS, reg)
    /\ UNCHANGED <<motors, servos, pwmCompleteWritePtr, motorConfig,
                   initArgs, servoConfig, phase, command>>

\* Variant: a disable that also marks every motor port disabled.
pwmDisableMotors_ReleasesPorts ==
    /\ Running
    /\ Observe("pwmDisableMotors", 0)
    /\ pwmMotorsEnabled' = FALSE
    /\ lastGate' = "disable"
    /\ motors' = [i \in MotorSlots |-> [motors[i] EXCEPT !.enabled = FALSE]]
    /\ UNCHANGED <<servos, pwmCompleteWritePtr, reg, motorConfig,
                   initArgs, servoConfig, phase, command>>

\* void pwmDisableMotors(void)
pwmDisableMotors ==
    /\ Running
    /\ Observe("pwmDisableMotors", 0)
    /\ pwmMotorsEnabled' = FALSE
    /\ lastGate' = "disable"
    /\ UNCHANGED <<motors, servos, pwmCompleteWritePtr, reg, motorConfig,
                   initArgs, servoConfig, phase, command>>

\* Variant: pwmEnableMotors that leaves the flag as it is.
pwmEnableMotors_FlagKept ==
    /\ Running
    /\ Observe("pwmEnableMotors", 0)
    /\ lastGate' = "enable"
    /\ UNCHANGED <<motors, servos, pwmCompleteWritePtr, pwmMotorsEnabled, reg,
                   motorConfig, initArgs, servoConfig, phase, command>>

\* void pwmEnableMotors(void)
pwmEnableMotors ==
    /\ Running
    /\ Observe("pwmEnableMotors", 0)
    /\ pwmMotorsEnabled' = TRUE
    /\ lastGate' = "enable"
    /\ UNCHANGED <<motors, servos, pwmCompleteWritePtr, reg, motorConfig,
                   initArgs, servoConfig, phase, command>>

\* Variant: a scan that looks at the preceding channel only.
AlreadyOverflowed_Adjacent(index) ==
    index > 0 /\ motors[index - 1].tim = motors[index].tim

\* Whether an earlier channel has the timer of channel index (the scan of
\* pwmCompleteOneshotMotorUpdate).
AlreadyOverflowed(index) ==
    \E j \in 0 .. (index - 1) : motors[j].tim = motors[index].tim

\* One pass of the loop of pwmCompleteOneshotMotorUpdate: the registers, the
\* forced overflows by timer (0: timerForceOverflow(NULL)) and the stores
\* through a NULL ccr.
OneshotSlot(index, st) ==
    LET port == motors[index]
        f == IF ~AlreadyOverflowed(index)
             THEN [st.forced EXCEPT ![port.tim] = @ + 1]
             ELSE st.forced
    IN  IF port.ccr # NULL
        THEN [reg |-> [st.reg EXCEPT ![port.ccr] = 0], forced |-> f,
              nullStores |-> st.nullStores]
        ELSE [reg |-> st.reg, forced |-> f, nullStores |-> st.nullStores + 1]

RECURSIVE pwmCompleteOneshotMotorUpdate(_, _, _)
pwmCompleteOneshotMotorUpdate(index, motorCount, st) ==
    IF index < motorCount
    THEN pwmCompleteOneshotMotorUpdate(index + 1, motorCount, OneshotSlot(index, st))
    ELSE st

\* pwmCompleteDigitalMotorUpdate is the bridge's: it touches no register,
\* timer or port of this file.
pwmCompleteDigitalMotorUpdate(motorCount, st) == st

\* void pwmCompleteMotorUpdate(uint8_t motorCount).  A NULL timer or ccr
\* dereferenced is undefined: the call may fault (halted) or return.
pwmCompleteMotorUpdate(motorCount) ==
    /\ Running
    /\ lastCall' = [op |-> "pwmCompleteMotorUpdate", arg |-> motorCount]
    /\ LET st0 == [reg |-> reg, forced |-> NoForced, nullStores |-> 0]
           st == CASE pwmCompleteWritePtr = "pwmCompleteOneshotMotorUpdate" ->
                        pwmCompleteOneshotMotorUpdate(0, motorCount, st0)
                   [] pwmCompleteWritePtr = "pwmCompleteDigitalMotorUpdate" ->
                        pwmCompleteDigitalMotorUpdate(motorCount, st0)
                   [] OTHER -> st0
       IN  /\ reg' = st.reg
           /\ forced' = st.forced
           /\ nullStores' = st.nullStores
           /\ halted' \in (IF st.nullStores > 0 \/ st.forced[NULL] > 0
                           THEN BOOLEAN ELSE {FALSE})
    /\ UNCHANGED <<motors, servos, pwmCompleteWritePtr, pwmMotorsEnabled,
                   motorConfig, initArgs, servoConfig, phase, lastGate, command>>

\* bool pwmIsSynced(void)
pwmIsSynced == pwmCompleteWritePtr # "NULL"

\* Variant: a servo write guard that tests the enable gate as well.
WriteServoAllowed_Gated(index) ==
    /\ index < MAX_SUPPORTED_SERVOS
    /\ pwmMotorsEnabled
    /\ servos[index].ccr # NULL

\* index < MAX_SUPPORTED_SERVOS && servos[index].ccr
WriteServoAllowed(index) ==
    /\ index < MAX_SUPPORTED_SERVOS
    /\ servos[index].ccr # NULL

\* void pwmWriteServo(uint8_t index, uint16_t value)
pwmWriteServo(index, value) ==
    /\ Running
    /\ Observe("pwmWriteServo", index)
    /\ reg' = IF WriteServoAllowed(index)
              THEN [reg EXCEPT ![servos[index].ccr] = value]
              ELSE reg
    /\ UNCHANGED <<motors, servos, pwmCompleteWritePtr, pwmMotorsEnabled,
                   motorConfig, initArgs, servoConfig, phase, lastGate, command>>

\* ------------------------------------------------------- specifications

\* Command values written, and the indexes and counts the calls are given
\* (uint8_t: 255 is the largest).
Values == {1000, 2000}
MotorIndexes == (0 .. MAX_SUPPORTED_MOTORS) \cup {255}
ServoIndexes == (0 .. MAX_SUPPORTED_SERVOS) \cup {255}
MotorCounts == 0 .. MAX_SUPPORTED_MOTORS

\* Configurations.  A layout is the ioTags of a configuration.
MotorLayouts == [MotorSlots -> IoTags]
ServoLayouts == [ServoSlots -> IoTags]
FullLayout == [i \in MotorSlots |-> (i % 3) + 1]
PairLayout == [i \in MotorSlots |-> IF i < 2 THEN i + 1 ELSE 0]
NoServos == [servoPwmRate |-> 50, servoCenterPulse |-> 1500,
             ioTags |-> [i \in ServoSlots |-> 0]]

\* Every protocol and synchronization mode on a fully populated bank; every
\* layout of tags under the synced analog protocol; every layout of servo
\* tags beside two motors.
ProtocolSweep ==
    [motorPwmProtocol : Protocols, useUnsyncedPwm : BOOLEAN,
     motorPwmRate : {480}, ioTags : {FullLayout}]
TagSweep ==
    [motorPwmProtocol : {"PWM_TYPE_ONESHOT125"}, useUnsyncedPwm : {FALSE},
     motorPwmRate : {480}, ioTags : MotorLayouts]
ServoSweep ==
    [servoPwmRate : {50}, servoCenterPulse : {1500}, ioTags : ServoLayouts]
BesideServos ==
    [motorPwmProtocol : {"PWM_TYPE_ONESHOT125", "PWM_TYPE_STANDARD"},
     useUnsyncedPwm : {FALSE}, motorPwmRate : {480}, ioTags : {PairLayout}]
RunConfigs ==
    ((ProtocolSweep \cup TagSweep) \X {NoServos}) \cup (BesideServos \X ServoSweep)
RunArgs == [idlePulse : {1000}, motorCount : {MAX_SUPPORTED_MOTORS}]

\* The state after the static initialisers, before motorInit.
Boot ==
    /\ motors = [i \in MotorSlots |-> ZeroPort]
    /\ servos = [i \in ServoSlots |-> ZeroPort]
    /\ pwmCompleteWritePtr = "NULL"
    /\ pwmMotorsEnabled = TRUE
    /\ reg = [h \in CcrHandles |-> 0]
    /\ phase = "boot"
    /\ lastCall = [op |-> "none", arg |-> 0]
    /\ forced = NoForced
    /\ nullStores = 0
    /\ lastGate = "none"
    /\ halted = FALSE

Init ==
    /\ Boot
    /\ \E c \in RunConfigs : motorConfig = c[1] /\ servoConfig = c[2]
    /\ initArgs \in RunArgs
    /\ command = 1000

Next ==
    \/ motorInit
    \/ servoInit
    \/ \E index \in MotorIndexes, value \in Values : pwmWriteMotor(index, value)
    \/ \E index \in ServoIndexes, value \in Values : pwmWriteServo(index, value)
    \/ \E motorCount \in MotorCounts : pwmShutdownPulsesForAllMotors(motorCount)
    \/ \E motorCount \in MotorCounts : pwmCompleteMotorUpdate(motorCount)
    \/ pwmDisableMotors
    \/ pwmEnableMotors

Spec == Init /\ [][Next]_vars

\* Initialisation alone, over more configurations: every protocol, mode,
\* rate and idle pulse on a full bank, and every layout of tags with every
\* requested motor count (one beyond capacity included), each beside every
\* layout of servo tags.
MotorPwmRates == {200, 480, 32000}
ProtocolSweepWide ==
    [motorPwmProtocol : Protocols, useUnsyncedPwm : BOOLEAN,
     motorPwmRate : MotorPwmRates, ioTags : {FullLayout}]
ProtocolSweepArgs == [idlePulse : {0, 1000}, motorCount : {MAX_SUPPORTED_MOTORS}]
TagSweepWide ==
    [motorPwmProtocol : {"PWM_TYPE_ONESHOT125", "PWM_TYPE_STANDARD", "PWM_TYPE_DSHOT600"},
     useUnsyncedPwm : {FALSE}, motorPwmRate : {480}, ioTags : MotorLayouts]
TagSweepArgs == [idlePulse : {1000}, motorCount : 0 .. (MAX_SUPPORTED_MOTORS + 1)]
InitConfigs ==
    (ProtocolSweepWide \X ProtocolSweepArgs) \cup (TagSweepWide \X TagSweepArgs)

InitWide ==
    /\ Boot
    /\ \E c \in InitConfigs : motorConfig = c[1] /\ initArgs = c[2]
    /\ servoConfig \in ServoSweep
    /\ command = 1000

NextInit ==
    \/ motorInit
    \/ servoInit

SpecInit == InitWide /\ [][NextInit]_vars

\* The encoders alone: one motor on the first output, under every analog
\* protocol, both modes and three refresh rates (the Brushed periods 50000,
\* 1000 and 750), written once with each command of the command domain.
EncodeRates == {480, 24000, 32000}
SingleLayout == [i \in MotorSlots |-> IF i = 0 THEN 1 ELSE 0]
EncodeConfigs ==
    [motorPwmProtocol : AnalogProtocols, useUnsyncedPwm : BOOLEAN,
     motorPwmRate : EncodeRates, ioTags : {SingleLayout}]
Commands == 1000 .. 2000

InitEncode ==
    /\ Boot
    /\ motorConfig \in EncodeConfigs
    /\ initArgs \in RunArgs
    /\ servoConfig = NoServos
    /\ command \in Commands

NextEncode ==
    \/ motorInit
    \/ servoInit
    \/ pwmWriteMotor(0, command)

SpecEncode == InitEncode /\ [][NextEncode]_vars

\* --------------------------------------------------------------- claims

IsCall(op) == lastCall.op = op

\* An enabled motor port that holds a compare-register handle.
AnalogMotor(i) == motors[i].enabled /\ motors[i].ccr # NULL

\* C1: pwmWriteMotor(index, value) leaves every compare register as it was
\* when index >= MAX_SUPPORTED_MOTORS, when the port at index is disabled,
\* or when the enable gate is cleared.
C1_WriteMotorNoOp ==
    [][\A index \in MotorIndexes, value \in Values :
         (/\ pwmWriteMotor(index, value)
          /\ \/ index >= MAX_SUPPORTED_MOTORS
             \/ ~motors[index].enabled
             \/ ~pwmMotorsEnabled)
         => reg' = reg]_vars

\* A write to an enabled motor whose register holds a value has just been
\* made with the gate cleared.
C1_Witness ==
    /\ IsCall("pwmWriteMotor")
    /\ ~pwmMotorsEnabled
    /\ lastCall.arg \in MotorSlots
    /\ AnalogMotor(lastCall.arg)
    /\ reg[motors[lastCall.arg].ccr] # 0

\* C2: a pwmWriteMotor(i, v) on an enabled port stores the encoded value in
\* port i's register exactly when the most recent gate operation was
\* pwmEnableMotors or there has been none; after pwmDisableMotors it leaves
\* the registers at their prior values.
C2_GateDecidesWrite ==
    [][\A index \in MotorSlots, value \in Values :
         (pwmWriteMotor(index, value) /\ AnalogMotor(index))
         => IF lastGate # "disable"
            THEN reg'[motors[index].ccr]
                   = CallWritePtr(reg, motors[index], value)[motors[index].ccr]
            ELSE reg' = reg]_vars

\* A write has taken effect on an enabled port after the gate was set again.
C2_Witness ==
    /\ IsCall("pwmWriteMotor")
    /\ lastGate = "enable"
    /\ lastCall.arg \in MotorSlots
    /\ AnalogMotor(lastCall.arg)
    /\ reg[motors[lastCall.arg].ccr] # 0

\* C3 as stated: after pwmShutdownPulsesForAllMotors(n) every enabled motor
\* with index < n has compare register 0, for every protocol.
C3_ShutdownZeroesEveryEnabled ==
    IsCall("pwmShutdownPulsesForAllMotors")
    => \A i \in MotorSlots :
         (i < lastCall.arg /\ motors[i].enabled)
         => (motors[i].ccr # NULL /\ reg[motors[i].ccr] = 0)

\* C3 as amended: after pwmShutdownPulsesForAllMotors(n) every enabled motor
\* with index < n that holds a compare-register handle has register 0,
\* whatever the gate; an enabled port without a handle is a digital one,
\* which the call does not touch.
C3_ShutdownZeroesAnalog ==
    IsCall("pwmShutdownPulsesForAllMotors")
    => \A i \in MotorSlots :
         (i < lastCall.arg /\ motors[i].enabled)
         => IF motors[i].ccr # NULL
            THEN reg[motors[i].ccr] = 0
            ELSE motors[i].pwmWritePtr = "pwmWriteDigital"

\* A shutdown of the first motor only, with the gate cleared, beside a
\* second motor whose register still holds a value.
C3_Witness ==
    /\ IsCall("pwmShutdownPulsesForAllMotors")
    /\ lastCall.arg = 1
    /\ ~pwmMotorsEnabled
    /\ AnalogMotor(0) /\ AnalogMotor(1)
    /\ reg[motors[0].ccr] = 0
    /\ reg[motors[1].ccr] # 0

\* C4: in an analog synced configuration, one pwmCompleteMotorUpdate(count)
\* whose first count channels are all enabled forces exactly one overflow on
\* each distinct timer of channels 0..count-1, none on any other timer, and
\* leaves each of those channels' registers at 0.
C4_OneOverflowPerTimer ==
    (/\ IsCall("pwmCompleteMotorUpdate")
     /\ pwmCompleteWritePtr = "pwmCompleteOneshotMotorUpdate"
     /\ \A i \in MotorSlots : i < lastCall.arg => motors[i].enabled)
    => /\ \A t \in 0 .. NumTimers :
            forced[t] = IF \E i \in MotorSlots : i < lastCall.arg /\ motors[i].tim = t
                        THEN 1 ELSE 0
       /\ \A i \in MotorSlots : i < lastCall.arg => reg[motors[i].ccr] = 0
       /\ nullStores = 0

\* A completion over three channels, the first and third on one timer and
\* the second on another.
C4_Witness ==
    /\ IsCall("pwmCompleteMotorUpdate")
    /\ pwmCompleteWritePtr = "pwmCompleteOneshotMotorUpdate"
    /\ lastCall.arg = 3
    /\ motors[0].enabled /\ motors[1].enabled /\ motors[2].enabled
    /\ motors[0].tim = motors[2].tim
    /\ motors[0].tim # motors[1].tim
    /\ motors[0].ccr # motors[2].ccr

\* C5 as stated: no operation stores through a NULL register handle or
\* forces an overflow on a NULL timer, whatever count it is given.
C5_DisabledSlotsAreNoOps ==
    nullStores = 0 /\ forced[NULL] = 0

\* C6: after motorInit, pwmIsSynced() is true exactly when the protocol is
\* a Dshot one, or is of the oneshot family (OneShot125, OneShot42,
\* Multishot, or a value the switch does not name) with useUnsyncedPwm
\* false; the binding then is the digital, respectively the oneshot,
\* completion, in every later state.
OneshotFamily ==
    {"PWM_TYPE_ONESHOT125", "PWM_TYPE_ONESHOT42", "PWM_TYPE_MULTISHOT", "PWM_TYPE_MAX"}
C6_SyncedIffConfigured ==
    phase # "boot"
    => /\ pwmIsSynced
            <=> \/ motorConfig.motorPwmProtocol \in DshotProtocols
                \/ /\ motorConfig.motorPwmProtocol \in OneshotFamily
                   /\ ~motorConfig.useUnsyncedPwm
       /\ pwmCompleteWritePtr = "pwmCompleteDigitalMotorUpdate"
            <=> motorConfig.motorPwmProtocol \in DshotProtocols

\* Operations have run after an initialisation that asked for synced
\* Standard PWM, and the driver is not synced.
C6_Witness ==
    /\ phase = "run"
    /\ IsCall("pwmCompleteMotorUpdate")
    /\ motorConfig.motorPwmProtocol = "PWM_TYPE_STANDARD"
    /\ ~motorConfig.useUnsyncedPwm
    /\ ~pwmIsSynced

\* C7: with N requested slots and K the first position below N (and below
\* capacity) whose tag is unset or does not resolve, motorInit leaves
\* exactly the slots below K enabled, each with a write operation, and the
\* others disabled, whatever the tags after K.
RequestedSlots ==
    IF initArgs.motorCount < MAX_SUPPORTED_MOTORS
    THEN initArgs.motorCount ELSE MAX_SUPPORTED_MOTORS
BadTag(tag) == tag = 0 \/ timerGetByTag(tag) = NoTimerHardware
FirstBadSlot ==
    CHOOSE k \in 0 .. RequestedSlots :
        /\ \A i \in 0 .. (k - 1) : ~BadTag(motorConfig.ioTags[i])
        /\ k = RequestedSlots \/ BadTag(motorConfig.ioTags[k])
C7_EnabledIsPrefix ==
    phase # "boot"
    => \A i \in MotorSlots :
         /\ motors[i].enabled <=> i < FirstBadSlot
         /\ motors[i].enabled <=> motors[i].pwmWritePtr # "NULL"

\* An initialisation whose first bad tag is followed by a good one within
\* the requested slots.
C7_Witness ==
    /\ phase # "boot"
    /\ FirstBadSlot = 1
    /\ RequestedSlots = 3
    /\ ~BadTag(motorConfig.ioTags[2])
    /\ motors[0].enabled /\ ~motors[2].enabled

\* C8 as stated: after initialisation no two ports hold the same
\* compare-register handle, and a disabled port holds none.
PortsOf(bank, kind) == {<<kind, i>> : i \in DOMAIN bank}
AllPorts == PortsOf(motors, "motor") \cup PortsOf(servos, "servo")
PortAt(p) == IF p[1] = "motor" THEN motors[p[2]] ELSE servos[p[2]]
C8_NoSharedHandle ==
    phase = "run"
    => /\ \A p, q \in AllPorts :
            (p # q /\ PortAt(p).ccr # NULL) => PortAt(p).ccr # PortAt(q).ccr
       /\ \A p \in AllPorts : ~PortAt(p).enabled => PortAt(p).ccr = NULL

\* C9 as stated: while the gate is cleared neither pwmWriteMotor nor
\* pwmWriteServo changes a compare register.
C9_GateStopsAllWrites ==
    [][(/\ ~pwmMotorsEnabled
        /\ \/ \E index \in MotorIndexes, value \in Values : pwmWriteMotor(index, value)
           \/ \E index \in ServoIndexes, value \in Values : pwmWriteServo(index, value))
       => reg' = reg]_vars

\* C9 as amended: the gate stops motor writes only.  While it is cleared
\* pwmWriteMotor changes no compare register; pwmWriteServo stores the
\* value in an enabled servo's register whatever the gate.
C9_GateStopsMotorWrites ==
    [][/\ (/\ ~pwmMotorsEnabled
           /\ \E index \in MotorIndexes, value \in Values : pwmWriteMotor(index, value))
          => reg' = reg
       /\ \A index \in ServoSlots, value \in Values :
            (pwmWriteServo(index, value) /\ servos[index].enabled)
            => reg'[servos[index].ccr] = value]_vars

\* A servo write has stored a value with the gate cleared.
C9_Witness ==
    /\ IsCall("pwmWriteServo")
    /\ ~pwmMotorsEnabled
    /\ lastCall.arg \in ServoSlots
    /\ servos[lastCall.arg].enabled
    /\ reg[servos[lastCall.arg].ccr] # 0

\* C10 as stated: every unsynced analog motor port enabled by motorInit has
\* period (timerMhz * 1000000) / motorPwmRate.
C10_PeriodIsClockOverRate ==
    LET sel == ProtocolSwitch(motorConfig, initArgs.idlePulse)
    IN  (phase # "boot" /\ sel.useUnsyncedPwm /\ ~sel.isDigital)
        => \A i \in MotorSlots :
             motors[i].enabled
             => motors[i].period
                  = (sel.timerMhzCounter * 1000000) \div motorConfig.motorPwmRate

\* The first motor has just been written with the command, through its
\* bound encoder.
Encoded == IsCall("pwmWriteMotor") /\ lastCall.arg = 0 /\ AnalogMotor(0)

\* The compare register of the first motor.
Stored == reg[motors[0].ccr]

BrushedAt(period) ==
    motors[0].pwmWritePtr = "pwmWriteBrushed" /\ motors[0].period = period

\* C11 as stated: the Brushed encoder applied to 1500 on a port of period
\* 1000 stores 250.
C11_BrushedMidpointIs250 ==
    Encoded /\ BrushedAt(1000) /\ command = 1500 => Stored = 250

\* C11 amended: the Brushed encoder applied to 1500 on a port of period 1000
\* stores 500, half the period.
C11_BrushedMidpointIs500 ==
    Encoded /\ BrushedAt(1000) /\ command = 1500 => Stored = 500

C11_Witness ==
    Encoded /\ BrushedAt(1000) /\ command = 1500 /\ Stored = 500

\* num/den rounded to the nearest integer, for num >= 0 and den > 0.
RoundNearest(num, den) == (2 * num + den) \div (2 * den)

\* The reference tick count of a write operation on a timer of mhz MHz.
ReferenceTicks(writePtr, mhz, period, value) ==
    CASE writePtr = "pwmWriteStandard" -> value
      [] writePtr = "pwmWriteBrushed" -> ((value - 1000) * period) \div 1000
      [] writePtr = "pwmWriteOneShot125" -> RoundNearest(value * mhz, 8)
      [] writePtr = "pwmWriteOneShot42" -> RoundNearest(value * mhz, 24)
      [] writePtr = "pwmWriteMultiShot" ->
           RoundNearest((value - 1000) * (mhz * 20) + (mhz * 5) * 1000, 1000)

\* The clock of the timer behind a write operation.
ClockOf(writePtr) ==
    CASE writePtr = "pwmWriteStandard" -> PWM_TIMER_MHZ
      [] writePtr = "pwmWriteBrushed" -> PWM_BRUSHED_TIMER_MHZ
      [] writePtr = "pwmWriteOneShot125" -> ONESHOT125_TIMER_MHZ
      [] writePtr = "pwmWriteOneShot42" -> ONESHOT42_TIMER_MHZ
      [] writePtr = "pwmWriteMultiShot" -> MULTISHOT_TIMER_MHZ

WrittenBy(writePtr, value) ==
    Encoded /\ motors[0].pwmWritePtr = writePtr /\ command = value

\* C12: for every command in [1000,2000] the bound write operation stores
\* exactly the reference tick count of its protocol; OneShot125 at 8 MHz
\* maps 1000 to 1000 and 2000 to 2000, OneShot42 at 24 MHz maps 1000 to 1000,
\* Multishot at 8 MHz maps 1000 to 40 and 2000 to 200.
C12_StoresReferenceTicks ==
    /\ Encoded =>
          Stored = ReferenceTicks(motors[0].pwmWritePtr, ClockOf(motors[0].pwmWritePtr),
                                  motors[0].period, command)
    /\ ONESHOT125_TIMER_MHZ = 8 /\ WrittenBy("pwmWriteOneShot125", 1000) => Stored = 1000
    /\ ONESHOT125_TIMER_MHZ = 8 /\ WrittenBy("pwmWriteOneShot125", 2000) => Stored = 2000
    /\ ONESHOT42_TIMER_MHZ = 24 /\ WrittenBy("pwmWriteOneShot42", 1000) => Stored = 1000
    /\ MULTISHOT_TIMER_MHZ = 8 /\ WrittenBy("pwmWriteMultiShot", 1000) => Stored = 40
    /\ MULTISHOT_TIMER_MHZ = 8 /\ WrittenBy("pwmWriteMultiShot", 2000) => Stored = 200

C12_Witness ==
    MULTISHOT_TIMER_MHZ = 8 /\ WrittenBy("pwmWriteMultiShot", 1004) /\ Stored = 41

\* C13: every encoder is monotone on the command domain: the register value
\* stored for a command is at most the one stored for any larger command,
\* under every protocol and every Brushed period.
C13_EncodersMonotone ==
    Encoded =>
      \A v2 \in Commands :
        command < v2 => Stored <= CallWritePtr(reg, motors[0], v2)[motors[0].ccr]

C13_Witness ==
    /\ Encoded /\ BrushedAt(750) /\ command = 1001 /\ Stored = 0
    /\ CallWritePtr(reg, motors[0], 1002)[motors[0].ccr] = 1

\* Some motor's compare register holds a pulse.
SomeMotorPulse == \E i \in MotorSlots : AnalogMotor(i) /\ reg[motors[i].ccr] # 0

\* C14: pwmDisableMotors and pwmEnableMotors change only the global enable
\* flag: no motor or servo compare register (and no port, nor the
\* completion binding) changes, so a value stored before the call is still
\* there after it.
C14_GateOpsKeepRegisters ==
    [][(pwmDisableMotors \/ pwmEnableMotors)
       => /\ reg' = reg
          /\ motors' = motors
          /\ servos' = servos
          /\ pwmCompleteWritePtr' = pwmCompleteWritePtr]_vars

C14_Witness ==
    IsCall("pwmDisableMotors") /\ ~pwmMotorsEnabled /\ SomeMotorPulse

\* The fields of a port that initialization sets.
Binding(port) ==
    <<port.ccr, port.tim, port.period, port.pwmWritePtr, port.enabled>>

\* C15: once initialization has finished, no runtime call changes any
\* port's register handle, timer, period, write operation or enabled flag;
\* a slot left disabled stays disabled.
C15_PortsFrozenAfterInit ==
    [][phase = "run"
       => /\ \A i \in MotorSlots : Binding(motors'[i]) = Binding(motors[i])
          /\ \A i \in ServoSlots : Binding(servos'[i]) = Binding(servos[i])
          /\ \A i \in MotorSlots : ~motors[i].enabled => ~motors'[i].enabled
          /\ \A i \in ServoSlots : ~servos[i].enabled => ~servos'[i].enabled]_vars

C15_Witness ==
    /\ IsCall("pwmDisableMotors")
    /\ motors[0].enabled
    /\ ~motors[MAX_SUPPORTED_MOTORS - 1].enabled
    /\ SomeMotorPulse

\* The configuration asks for an unsynced output.
UnsyncedConfig ==
    \/ motorConfig.motorPwmProtocol \in {"PWM_TYPE_STANDARD", "PWM_TYPE_BRUSHED"}
    \/ /\ motorConfig.motorPwmProtocol \in OneshotFamily
       /\ motorConfig.useUnsyncedPwm

\* C16: under an unsynced configuration pwmCompleteMotorUpdate(count) is a
\* no-op for every count: it forces no timer overflow and changes no compare
\* register, so written values persist across it.
C16_UnsyncedCompletionNoOp ==
    [][\A count \in MotorCounts :
         (UnsyncedConfig /\ pwmCompleteMotorUpdate(count))
         => /\ reg' = reg
            /\ forced' = NoForced
            /\ nullStores' = 0
            /\ ~halted']_vars

C16_Witness ==
    /\ IsCall("pwmCompleteMotorUpdate")
    /\ lastCall.arg = MAX_SUPPORTED_MOTORS
    /\ UnsyncedConfig
    /\ \A i \in MotorSlots : AnalogMotor(i) /\ reg[motors[i].ccr] # 0

\* No two ports hold the same register handle.
DistinctHandles ==
    \A p, q \in AllPorts :
      (p # q /\ PortAt(p).ccr # NULL) => PortAt(p).ccr # PortAt(q).ccr

\* The step changes the register of no port but p.
OnlyRegisterOf(p) ==
    /\ \A q \in AllPorts \ {p} :
         PortAt(q).ccr # NULL => reg'[PortAt(q).ccr] = reg[PortAt(q).ccr]
    /\ pwmMotorsEnabled' = pwmMotorsEnabled
    /\ pwmCompleteWritePtr' = pwmCompleteWritePtr

\* C17: with the gate set, port i enabled and distinct handles per port,
\* pwmWriteMotor(i, v) changes only motor i's compare register: every other
\* motor register, every servo register, the gate and the completion binding
\* are unchanged; likewise pwmWriteServo(i, v) changes only servo i's.
C17_WriteTouchesOnePort ==
    [][/\ \A i \in MotorSlots :
            (/\ lastCall'.op = "pwmWriteMotor" /\ lastCall'.arg = i
             /\ pwmMotorsEnabled /\ motors[i].enabled
             /\ \E v \in Values : pwmWriteMotor(i, v)
             /\ DistinctHandles)
            => OnlyRegisterOf(<<"motor", i>>)
       /\ \A i \in ServoSlots :
            (/\ lastCall'.op = "pwmWriteServo" /\ lastCall'.arg = i
             /\ pwmMotorsEnabled /\ servos[i].enabled
             /\ \E v \in Values : pwmWriteServo(i, v)
             /\ DistinctHandles)
            => OnlyRegisterOf(<<"servo", i>>)]_vars

C17_Witness ==
    /\ IsCall("pwmWriteMotor")
    /\ lastCall.arg = 1
    /\ pwmMotorsEnabled
    /\ DistinctHandles
    /\ AnalogMotor(0) /\ AnalogMotor(1)
    /\ reg[motors[1].ccr] = 2000
    /\ reg[motors[0].ccr] = 1000
    /\ \E i \in ServoSlots : servos[i].enabled /\ reg[servos[i].ccr] = 1000

\* Every enabled port that holds a register handle has compare register 0.
AllPulsesZero ==
    \A p \in AllPorts :
      (PortAt(p).enabled /\ PortAt(p).ccr # NULL) => reg[PortAt(p).ccr] = 0

\* C18: right after initialization every enabled analog motor port and every
\* enabled servo port has compare register 0, whatever the idle pulse, the
\* servo centre pulse and the mode; a register first becomes non-zero only
\* through a write operation.
C18_ZeroUntilWritten ==
    /\ [](IsCall("motorInit") \/ IsCall("servoInit") => AllPulsesZero)
    /\ [][\A h \in CcrHandles :
            (reg[h] = 0 /\ reg'[h] # 0)
            => lastCall'.op \in {"pwmWriteMotor", "pwmWriteServo"}]_vars

C18_Witness ==
    /\ IsCall("servoInit")
    /\ phase = "run"
    /\ ~pwmIsSynced
    /\ initArgs.idlePulse # 0
    /\ \A i \in MotorSlots : AnalogMotor(i) /\ reg[motors[i].ccr] = 0
====
